---- MODULE Spec2Model ----
(***************************************************************************)
(* One session of the cognitive-assessment backend: the websocket message  *)
(* loop (BaseTaskHandler.handle_connection), the scripted emission         *)
(* sequences of the working-memory and abstraction handlers, the HTTP      *)
(* upload endpoints and the background evaluation tasks of main.py.        *)
(*                                                                         *)
(* Scheduling is asyncio's: one event loop, a coroutine gives up control   *)
(* only at an await that suspends (a websocket send, a sleep, the          *)
(* rendezvous wait).  STTService.transcribe_audio and the LLMService       *)
(* evaluate_* methods are "async def" without any await inside and call    *)
(* the synchronous OpenAI client, so an evaluation runs from its guards to *)
(* its first websocket send without any other coroutine running; while it  *)
(* is inside an external request the event loop is held (variable busy).   *)
(*                                                                         *)
(* Time has three scales.  A coroutine that is ready (just created, just   *)
(* released, or past a send that is followed by no sleep) runs before any  *)
(* asyncio.sleep of the scripts (0.05 .. 0.3 s) ends; a sleep ends before  *)
(* a rendezvous deadline (30 s) passes; the oldest wait expires first.     *)
(* The client and the external services take whatever time they take.      *)
(***************************************************************************)
EXTENDS Integers, Sequences, FiniteSets, Bags, TLC

\* ------------------------------------------------------------ bounds
\* uploads of one session: with an unrestricted client (Spec), of the
\* sessions whose client only starts the task and uploads (SpecGate), and
\* of the sessions whose client starts, acknowledges and uploads (SpecScript)
MaxUploads == 1
MaxGateUploads == 2
MaxScriptUploads == 2
\* uploads of one abstraction session (SpecAbstraction)
MaxAbstractionUploads == 2
\* frames written by the client and not yet received
MaxInbox == 1

\* ------------------------------------------------------------ constants
\* Optional[int] trial_number = None of the outbound messages
None == -9

\* trial ids a client may put in the upload form (trial_number: int = Form(...))
TrialIds == {-1, 0, 1, 2, 3}

\* uploaded recordings: zero-length, PCM below the RMS threshold, speech
Audio == {"empty", "silent", "speech"}

\* the uploads of the client: the instruction's upload carries no audio, a
\* recording of any kind comes with a trial id in 1..2, and an id outside
\* 0..2 comes with speech (the case in which a transcription would cost)
Uploads ==
    {<<0, "empty">>} \cup ({1, 2} \X Audio) \cup ({-1, 3} \X {"speech"})

\* FIXED_WORDS of _select_trial_words
FIXED_WORDS == <<"chair", "book", "hand", "road", "cloud">>

\* the inbound frames of the socket: the three Event actions, and a frame
\* that ClientMessage(**message) rejects (unknown type or action, bad JSON)
ClientFrames == {"start_task", "audio_complete", "end_session", "unknown"}

\* texts Whisper may return for a recording that is not silent
WhisperTexts == {" ", "chair book hand"}

\* verdicts the chat completion may return for a non-blank transcript
GraderVerdicts ==
    { [correct_words |-> FIXED_WORDS, score |-> 10,
       is_correct |-> TRUE, confidence |-> 9, notes |-> "llm"] }

NoResponse == "No response detected - user remained silent"

\* a completion whose JSON carries a field the EvaluationResult model
\* rejects (notes: null, is_correct: "unsure", correct_words: "chair")
Rejected == "rejected by EvaluationResult"

MalformedVerdict ==
    [correct_words |-> <<>>, score |-> 0, is_correct |-> FALSE,
     confidence |-> 0, notes |-> Rejected]

VARIABLES
    registry,                    \* session_id in active_working_memory_handlers
    ws,                          \* the server side of the socket: open, closed
    client_open,                 \* the client has not disconnected
    inbox,                       \* frames sent by the client, not yet received
    loop_pc,                     \* where handle_connection stands
    task_started,                \* local of handle_connection
    current_phase,               \* BaseTaskHandler.current_phase
    trial_number,                \* handler.trial_number
    trial_words,                 \* handler.trial_words
    completion_sent,             \* handler.completion_sent
    audio_complete_event,        \* asyncio.Event is_set()
    waiting_for_audio_complete,  \* handler.waiting_for_audio_complete
    evaluated_trials,            \* handler.evaluated_trials (the gate)
    evaluation_results,          \* BaseTaskHandler.evaluation_results
    adv_tasks,                   \* tasks running handler._handle_audio_upload
    eval_tasks,                  \* tasks running _process_*_audio_async
    waiters,                     \* coroutines parked in wait_for, oldest first
    loop_acked,                  \* an ack was sent while the loop was parked
    busy,                        \* eval task holding the event loop, or 0
    sent,                        \* bag of the messages sent on the socket
    send_failed,                 \* a send was attempted on the closed socket
    http_responses,              \* the upload endpoint's answers, in order
    calls,                       \* invocations of the collaborators, per trial
    openai_api_key               \* OPENAI_API_KEY is set in the environment

vars == << registry, ws, client_open, inbox, loop_pc, task_started,
           current_phase, trial_number, trial_words, completion_sent,
           audio_complete_event, waiting_for_audio_complete,
           evaluated_trials, evaluation_results, adv_tasks, eval_tasks,
           waiters, loop_acked, busy, sent, send_failed, http_responses,
           calls, openai_api_key >>

\* groups of variables, for UNCHANGED
connVars == << registry, ws, client_open, inbox >>
phaseVars == << current_phase, trial_number, trial_words, completion_sent >>
waitVars == << audio_complete_event, waiting_for_audio_complete, waiters,
               loop_acked >>
gateVars == << evaluated_trials, evaluation_results >>
outVars == << sent, send_failed >>

\* ------------------------------------------------------------ messages
StateTransition(phase, trial) == <<"state_transition", phase, trial>>
TTSMessage(text, trial) == <<"tts_audio", text, trial>>
WordDisplayMessage(word, trial, word_index) ==
    <<"word_display", word, trial, word_index>>
TaskState(state, trial) == <<"task_state", state, trial>>
DebugMessage(text) == <<"debug", text>>
EvaluationResultMessage(result) == <<"evaluation_result", result>>
AllResultsMessage(results) == <<"all_results", results>>

RECURSIVE AddAll(_, _)
AddAll(bag, msgs) ==
    IF msgs = <<>> THEN bag
    ELSE AddAll(bag (+) SetToBag({Head(msgs)}), Tail(msgs))

\* websocket.send_text inside the try/except of every sender: the messages
\* go out while the socket is open; on the closed socket the send raises,
\* the sender logs it and goes on.
send_text(msgs) ==
    /\ sent' = IF ws = "open" THEN AddAll(sent, msgs) ELSE sent
    /\ send_failed' = (send_failed \/ (ws # "open" /\ msgs # <<>>))

Count(m) == IF m \in DOMAIN sent THEN sent[m] ELSE 0

\* ------------------------------------------------------------ state
ZeroCalls == [t \in TrialIds |-> 0]

Init ==
    /\ registry = TRUE
    /\ ws = "open"
    /\ client_open = TRUE
    /\ inbox = <<>>
    /\ loop_pc = "receive"
    /\ task_started = FALSE
    /\ current_phase = "waiting"
    /\ trial_number = 0
    /\ trial_words = <<>>
    /\ completion_sent = FALSE
    /\ audio_complete_event = FALSE
    /\ waiting_for_audio_complete = FALSE
    /\ evaluated_trials = {}
    /\ evaluation_results = <<>>
    /\ adv_tasks = <<>>
    /\ eval_tasks = <<>>
    /\ waiters = <<>>
    /\ loop_acked = FALSE
    /\ busy = 0
    /\ sent = SetToBag({DebugMessage("connected"), DebugMessage("session id"),
                        TaskState("listening", None)})
    /\ send_failed = FALSE
    /\ http_responses = <<>>
    /\ calls = [stt |-> ZeroCalls, whisper |-> ZeroCalls,
                llm |-> ZeroCalls, gpt |-> ZeroCalls]
    /\ openai_api_key \in BOOLEAN

\* ------------------------------------------------------------ the client
WaitPcs == {"intro_wait", "words_wait", "prompt_wait", "completion_wait"}

Parked(task) == task.pc \in WaitPcs /\ ~task.released

\* The client writes a frame on the socket.  An audio_complete written
\* while a coroutine is parked in the rendezvous wait is an ack sent before
\* that wait's deadline (acked / loop_acked remember it).
ClientSend(frame) ==
    /\ client_open
    /\ Len(inbox) < MaxInbox
    /\ inbox' = Append(inbox, frame)
    /\ IF frame = "audio_complete"
       THEN /\ loop_acked' = (loop_acked \/ loop_pc = "instruction_wait")
            /\ adv_tasks' = [i \in DOMAIN adv_tasks |->
                   IF Parked(adv_tasks[i])
                   THEN [adv_tasks[i] EXCEPT !.acked = TRUE]
                   ELSE adv_tasks[i]]
       ELSE UNCHANGED << loop_acked, adv_tasks >>
    /\ UNCHANGED << registry, ws, client_open, loop_pc, task_started,
                    phaseVars, audio_complete_event,
                    waiting_for_audio_complete, waiters, gateVars,
                    eval_tasks, busy, outVars, http_responses, calls,
                    openai_api_key >>

\* The client goes away: receive_text raises WebSocketDisconnect once the
\* frames sent before have been received.
ClientDisconnect ==
    /\ client_open
    /\ client_open' = FALSE
    /\ inbox' = Append(inbox, "disconnect")
    /\ UNCHANGED << registry, ws, loop_pc, task_started, phaseVars, waitVars,
                    gateVars, adv_tasks, eval_tasks, busy, outVars,
                    http_responses, calls, openai_api_key >>

\* ------------------------------------------------------------ upload endpoint
\* a script that closes a recording for every upload, the instruction's too
AdvTask_beep(k) ==
    [upload |-> k, pc |-> "beep_end",
     n |-> None, word_index |-> 0, asleep |-> FALSE, released |-> FALSE,
     acked |-> FALSE]

AdvTask(k) ==
    [upload |-> k, pc |-> IF k > 0 THEN "beep_end" ELSE "advance",
     n |-> None, word_index |-> 0, asleep |-> FALSE, released |-> FALSE,
     acked |-> FALSE]

EvalTask(k, audio_bytes) ==
    [trial_number |-> k, audio_bytes |-> audio_bytes, pc |-> "process",
     transcript |-> "", result |-> <<>>]

\* an endpoint that awaits the advancement up to its dispatch before it
\* answers
upload_working_memory_audio_awaited(k, audio_bytes) ==
    /\ busy = 0
    /\ IF registry
       THEN /\ adv_tasks' = Append(adv_tasks,
                                    [AdvTask(k) EXCEPT !.pc = "advance"])
            /\ eval_tasks' = Append(eval_tasks, EvalTask(k, audio_bytes))
            /\ http_responses' = Append(http_responses, "success")
       ELSE /\ http_responses' = Append(http_responses, "not_found")
            /\ UNCHANGED << adv_tasks, eval_tasks >>
    /\ UNCHANGED << connVars, loop_pc, task_started, phaseVars, waitVars,
                    gateVars, busy, outVars, calls, openai_api_key >>

\* an endpoint that does not look the session up
upload_working_memory_audio_unregistered(k, audio_bytes) ==
    /\ busy = 0
    /\ adv_tasks' = Append(adv_tasks, AdvTask(k))
    /\ eval_tasks' = Append(eval_tasks, EvalTask(k, audio_bytes))
    /\ http_responses' = Append(http_responses, "success")
    /\ UNCHANGED << connVars, loop_pc, task_started, phaseVars, waitVars,
                    gateVars, busy, outVars, calls, openai_api_key >>

\* upload_working_memory_audio: 404 for a session that is not registered,
\* else create_task(handler._handle_audio_upload), then
\* create_task(_process_working_memory_audio_async), then 200.
upload_working_memory_audio(k, audio_bytes) ==
    /\ busy = 0
    /\ IF registry
       THEN /\ adv_tasks' = Append(adv_tasks, AdvTask(k))
            /\ eval_tasks' = Append(eval_tasks, EvalTask(k, audio_bytes))
            /\ http_responses' = Append(http_responses, "success")
       ELSE /\ http_responses' = Append(http_responses, "not_found")
            /\ UNCHANGED << adv_tasks, eval_tasks >>
    /\ UNCHANGED << connVars, loop_pc, task_started, phaseVars, waitVars,
                    gateVars, busy, outVars, calls, openai_api_key >>

\* ------------------------------------------------------------ rendezvous
\* send_tts_audio up to its wait: clear the event, set the flag, synthesize
\* (generated = FALSE: generate_audio raises), send.  Any exception clears
\* the flag and skips the wait.
TtsDelivered(generated) == generated /\ ws = "open"

send_tts_audio(id, text, trial, generated) ==
    /\ audio_complete_event' = FALSE
    /\ waiting_for_audio_complete' = TtsDelivered(generated)
    /\ IF generated THEN send_text(<<TTSMessage(text, trial)>>)
                    ELSE UNCHANGED outVars
    /\ waiters' = IF TtsDelivered(generated) THEN Append(waiters, id)
                                             ELSE waiters

\* _handle_audio_complete: set the event (every coroutine parked on it is
\* released) and clear the flag.
handle_audio_complete ==
    /\ audio_complete_event' = TRUE
    /\ waiting_for_audio_complete' = FALSE
    /\ adv_tasks' = [i \in DOMAIN adv_tasks |->
           IF Parked(adv_tasks[i])
           THEN [adv_tasks[i] EXCEPT !.released = TRUE]
           ELSE adv_tasks[i]]
    /\ waiters' = SelectSeq(waiters, LAMBDA id : id = 0)

AdvReady(task) == task.pc # "done" /\ (task.pc \in WaitPcs => task.released)

\* some coroutine of the session is ready to run without a sleep to end
ReadyNow ==
    \/ loop_pc = "receive" /\ inbox # <<>>
    \/ loop_pc = "instruction_audio"
    \/ \E i \in DOMAIN adv_tasks :
          AdvReady(adv_tasks[i]) /\ ~adv_tasks[i].asleep
    \/ \E e \in DOMAIN eval_tasks : eval_tasks[e].pc # "done"

\* some coroutine of the session is ready, or in a sleep
Ready ==
    \/ ReadyNow
    \/ loop_pc = "instruction_playing"
    \/ \E i \in DOMAIN adv_tasks : AdvReady(adv_tasks[i])

\* the coroutine of adv_tasks[i] is the next to run: it is ready, and if
\* it sleeps no other coroutine is ready
Runs(i) ==
    /\ busy = 0
    /\ i \in DOMAIN adv_tasks
    /\ adv_tasks[i].asleep => ~ReadyNow

\* ------------------------------------------------------------ message loop
\* What finally: websocket.close() and the endpoint's finally: del
\* active_working_memory_handlers[session_id] leave behind.
CloseConnection ==
    /\ ws' = "closed"
    /\ registry' = FALSE
    /\ loop_pc' = "closed"

Receiving(frame) ==
    /\ busy = 0
    /\ loop_pc = "receive"
    /\ inbox # <<>>
    /\ Head(inbox) = frame
    /\ inbox' = Tail(inbox)

\* _start_task up to the first sleep of _send_instruction
start_task ==
    /\ trial_words' = << FIXED_WORDS, FIXED_WORDS >>
    /\ current_phase' = "instruction"
    /\ send_text(<< DebugMessage("task start received"),
                    StateTransition("instruction_display", 0) >>)
    /\ loop_pc' = "instruction_playing"

\* a message loop without the task_started flag: every start_task starts
RecvStartTask_again ==
    /\ Receiving("start_task")
    /\ task_started' = TRUE
    /\ start_task
    /\ UNCHANGED << registry, ws, client_open, trial_number, completion_sent,
                    waitVars, gateVars, adv_tasks, eval_tasks, busy,
                    http_responses, calls, openai_api_key >>

\* event.action == "start_task": the first one starts the task, the
\* handler awaits _start_task() inside the loop; a later one does nothing.
RecvStartTask ==
    /\ Receiving("start_task")
    /\ IF ~task_started
       THEN /\ task_started' = TRUE
            /\ start_task
       ELSE UNCHANGED << task_started, trial_words, current_phase, outVars,
                         loop_pc >>
    /\ UNCHANGED << registry, ws, client_open, trial_number, completion_sent,
                    waitVars, gateVars, adv_tasks, eval_tasks, busy,
                    http_responses, calls, openai_api_key >>

\* event.action == "audio_complete"
RecvAudioComplete ==
    /\ Receiving("audio_complete")
    /\ handle_audio_complete
    /\ UNCHANGED << registry, ws, client_open, loop_pc, task_started,
                    phaseVars, loop_acked, gateVars, eval_tasks,
                    busy, outVars, http_responses, calls, openai_api_key >>

\* event.action == "end_session": send_debug, break, finally close
RecvEndSession ==
    /\ Receiving("end_session")
    /\ send_text(<< DebugMessage("session ended by client") >>)
    /\ CloseConnection
    /\ UNCHANGED << client_open, task_started, phaseVars, waitVars, gateVars,
                    adv_tasks, eval_tasks, busy, http_responses, calls,
                    openai_api_key >>

\* a frame ClientMessage(**message) rejects: ValidationError is caught by
\* "except Exception", a debug note is tried, finally close
RecvInvalid ==
    /\ Receiving("unknown")
    /\ send_text(<< DebugMessage("error") >>)
    /\ CloseConnection
    /\ UNCHANGED << client_open, task_started, phaseVars, waitVars, gateVars,
                    adv_tasks, eval_tasks, busy, http_responses, calls,
                    openai_api_key >>

\* receive_text raises WebSocketDisconnect
RecvDisconnect ==
    /\ Receiving("disconnect")
    /\ CloseConnection
    /\ UNCHANGED << client_open, task_started, phaseVars, waitVars, gateVars,
                    adv_tasks, eval_tasks, busy, outVars, http_responses,
                    calls, openai_api_key >>

\* _send_instruction, step 2
InstructionPlaying ==
    /\ busy = 0
    /\ ~ReadyNow
    /\ loop_pc = "instruction_playing"
    /\ send_text(<< StateTransition("instruction_playing", 0) >>)
    /\ loop_pc' = "instruction_audio"
    /\ UNCHANGED << connVars, task_started, phaseVars, waitVars, gateVars,
                    adv_tasks, eval_tasks, busy, http_responses, calls,
                    openai_api_key >>

\* _send_instruction, step 3: send_tts_audio(instruction_text, 0); the
\* message loop itself is the coroutine that parks.
InstructionAudio(generated) ==
    /\ busy = 0
    /\ loop_pc = "instruction_audio"
    /\ send_tts_audio(0, "instruction", 0, generated)
    /\ loop_pc' = IF TtsDelivered(generated) THEN "instruction_wait"
                                             ELSE "receive"
    /\ loop_acked' = FALSE
    /\ UNCHANGED << connVars, task_started, phaseVars, gateVars,
                    adv_tasks, eval_tasks, busy, http_responses, calls,
                    openai_api_key >>

\* ------------------------------------------------------------ phase advancement
Task(i) == adv_tasks[i]

SetTask(i, task) == adv_tasks' = [adv_tasks EXCEPT ![i] = task]

\* a dispatch that takes every upload after the instruction's for trial 1's
UploadTarget_second(k) ==
    IF k = 0 THEN 1 ELSE 2

\* the trial whose script _handle_audio_upload(k) runs, None for completion
UploadTarget(k) ==
    IF k = 0 THEN 1 ELSE IF k = 1 THEN 2 ELSE None

\* f"trial_{trial_number}"
TrialPhase(n) == IF n = 1 THEN "trial_1" ELSE "trial_2"

\* a completion step without the completion_sent guard
send_completion_again(i) ==
    /\ completion_sent' = TRUE
    /\ send_text(<< StateTransition("completion_playing", None) >>)
    /\ SetTask(i, [Task(i) EXCEPT !.pc = "completion_audio",
                                  !.asleep = TRUE])
    /\ UNCHANGED << current_phase, trial_number, trial_words >>

\* _send_completion up to its first sleep
send_completion(i) ==
    IF completion_sent
    THEN /\ SetTask(i, [Task(i) EXCEPT !.pc = "done", !.asleep = FALSE])
         /\ UNCHANGED << phaseVars, outVars >>
    ELSE /\ completion_sent' = TRUE
         /\ send_text(<< StateTransition("completion_playing", None) >>)
         /\ SetTask(i, [Task(i) EXCEPT !.pc = "completion_audio",
                                       !.asleep = TRUE])
         /\ UNCHANGED << current_phase, trial_number, trial_words >>

\* _send_trial_words(n) up to its first suspension
send_trial_words(i, n) ==
    IF n > Len(trial_words)
    THEN send_completion(i)
    ELSE /\ current_phase' = TrialPhase(n)
         /\ trial_number' = n
         /\ IF n = 2
            THEN /\ send_text(<< StateTransition("trial_intro_playing", n) >>)
                 /\ SetTask(i, [Task(i) EXCEPT !.n = n, !.pc = "intro_audio",
                                               !.asleep = TRUE])
            ELSE /\ send_text(<< StateTransition("words_displaying", n) >>)
                 /\ SetTask(i, [Task(i) EXCEPT !.n = n, !.pc = "word_display",
                                               !.word_index = 1,
                                               !.asleep = FALSE])
         /\ UNCHANGED << trial_words, completion_sent >>

\* _handle_audio_upload(k, audio_bytes), one step per suspension
HandleAudioUpload(i) ==
    /\ Runs(i)
    /\ Task(i).pc \in {"beep_end", "recording_complete", "advance"}
    /\ LET k == Task(i).upload IN
       CASE Task(i).pc = "beep_end" ->
              /\ send_text(<< StateTransition("beep_end", k) >>)
              /\ SetTask(i, [Task(i) EXCEPT !.pc = "recording_complete",
                                            !.asleep = TRUE])
              /\ UNCHANGED phaseVars
         [] Task(i).pc = "recording_complete" ->
              /\ send_text(<< StateTransition("recording_complete", k) >>)
              /\ SetTask(i, [Task(i) EXCEPT !.pc = "advance",
                                            !.asleep = TRUE])
              /\ UNCHANGED phaseVars
         [] Task(i).pc = "advance" ->
              IF UploadTarget(k) = None
              THEN send_completion(i)
              ELSE send_trial_words(i, UploadTarget(k))
    /\ UNCHANGED << connVars, loop_pc, task_started, waitVars, gateVars,
                    eval_tasks, busy, http_responses, calls, openai_api_key >>

\* the steps of _send_trial_words and _send_completion that send one
\* message and do not wait, in the order of the code
PlainPcs == {"words_displaying", "word_display", "words_playing",
             "clear_display", "prompt_playing", "beep_start", "recording",
             "complete", "task_state", "all_results"}

MessageAt(task) ==
    CASE task.pc = "words_displaying" -> StateTransition("words_displaying", task.n)
      [] task.pc = "word_display" ->
           WordDisplayMessage(trial_words[task.n][task.word_index], task.n,
                              task.word_index)
      [] task.pc = "words_playing" -> StateTransition("words_playing", task.n)
      [] task.pc = "clear_display" -> WordDisplayMessage("", task.n, 0)
      [] task.pc = "prompt_playing" -> StateTransition("prompt_playing", task.n)
      [] task.pc = "beep_start" -> StateTransition("beep_start", task.n)
      [] task.pc = "recording" -> StateTransition("recording", task.n)
      [] task.pc = "complete" -> StateTransition("complete", None)
      [] task.pc = "task_state" -> TaskState("complete", None)
      [] task.pc = "all_results" -> AllResultsMessage(evaluation_results)

\* a script that goes from the last word shown to clearing the display
NextPc_skip_words(task) ==
    CASE task.pc = "words_displaying" -> "word_display"
      [] task.pc = "word_display" ->
           IF task.word_index < Len(trial_words[task.n]) THEN "word_display"
                                                         ELSE "clear_display"
      [] task.pc = "words_playing" -> "words_audio"
      [] task.pc = "clear_display" -> "prompt_playing"
      [] task.pc = "prompt_playing" -> "prompt_audio"
      [] task.pc = "beep_start" -> "recording"
      [] task.pc = "recording" -> "done"
      [] task.pc = "complete" -> "task_state"
      [] task.pc = "task_state" -> "all_results"
      [] task.pc = "all_results" -> "done"

NextPc(task) ==
    CASE task.pc = "words_displaying" -> "word_display"
      [] task.pc = "word_display" ->
           IF task.word_index < Len(trial_words[task.n]) THEN "word_display"
                                                         ELSE "words_playing"
      [] task.pc = "words_playing" -> "words_audio"
      [] task.pc = "clear_display" -> "prompt_playing"
      [] task.pc = "prompt_playing" -> "prompt_audio"
      [] task.pc = "beep_start" -> "recording"
      [] task.pc = "recording" -> "done"
      [] task.pc = "complete" -> "task_state"
      [] task.pc = "task_state" -> "all_results"
      [] task.pc = "all_results" -> "done"

\* the sends of the scripts that an asyncio.sleep follows
SleepsAfter(pc) ==
    pc \in {"word_display", "clear_display", "prompt_playing", "beep_start"}

NextWordIndex(task) ==
    CASE task.pc = "words_displaying" -> 1
      [] task.pc = "word_display" /\ task.word_index < Len(trial_words[task.n]) ->
           task.word_index + 1
      [] OTHER -> 0

ScriptStep(i) ==
    /\ Runs(i)
    /\ Task(i).pc \in PlainPcs
    /\ send_text(<< MessageAt(Task(i)) >>)
    /\ SetTask(i, [Task(i) EXCEPT !.pc = NextPc(Task(i)),
                                  !.word_index = NextWordIndex(Task(i)),
                                  !.asleep = SleepsAfter(Task(i).pc)])
    \* send_all_results sets the phase before its first send
    /\ current_phase' = IF Task(i).pc = "task_state" THEN "complete"
                                                     ELSE current_phase
    /\ UNCHANGED << connVars, loop_pc, task_started, trial_number,
                    trial_words, completion_sent, waitVars, gateVars,
                    eval_tasks, busy, http_responses, calls, openai_api_key >>

\* the audio emissions of the scripts
AudioPcs == {"intro_audio", "words_audio", "prompt_audio", "completion_audio"}

AudioText(pc) ==
    CASE pc = "intro_audio" -> "trial_2_intro"
      [] pc = "words_audio" -> "words"
      [] pc = "prompt_audio" -> "prompt"
      [] pc = "completion_audio" -> "completion"

WaitOf(pc) ==
    CASE pc = "intro_audio" -> "intro_wait"
      [] pc = "words_audio" -> "words_wait"
      [] pc = "prompt_audio" -> "prompt_wait"
      [] pc = "completion_audio" -> "completion_wait"

\* the step that follows the wait
AfterWait(pc) ==
    CASE pc = "intro_wait" -> "words_displaying"
      [] pc = "words_wait" -> "clear_display"
      [] pc = "prompt_wait" -> "beep_start"
      [] pc = "completion_wait" -> "complete"

\* a script that uses the base class's send_tts_audio, which sends the
\* audio and does not wait
AudioStep_nowait(i, generated) ==
    /\ Runs(i)
    /\ Task(i).pc \in AudioPcs
    /\ IF generated THEN send_text(<<TTSMessage(AudioText(Task(i).pc), Task(i).n)>>)
                    ELSE UNCHANGED outVars
    /\ SetTask(i, [Task(i) EXCEPT !.pc = AfterWait(WaitOf(Task(i).pc)),
                                  !.asleep = FALSE])
    /\ UNCHANGED << connVars, loop_pc, task_started, phaseVars, waitVars,
                    gateVars, eval_tasks, busy, http_responses,
                    calls, openai_api_key >>

\* a script that ends at the first audio that is not delivered
AudioStep_abort(i, generated) ==
    /\ Runs(i)
    /\ Task(i).pc \in AudioPcs
    /\ send_tts_audio(i, AudioText(Task(i).pc), Task(i).n, generated)
    /\ SetTask(i, [Task(i) EXCEPT
           !.pc = IF TtsDelivered(generated) THEN WaitOf(Task(i).pc)
                  ELSE "done",
           !.asleep = FALSE, !.released = FALSE, !.acked = FALSE])
    /\ UNCHANGED << connVars, loop_pc, task_started, phaseVars, loop_acked,
                    gateVars, eval_tasks, busy, http_responses,
                    calls, openai_api_key >>

AudioStep(i, generated) ==
    /\ Runs(i)
    /\ Task(i).pc \in AudioPcs
    /\ send_tts_audio(i, AudioText(Task(i).pc), Task(i).n, generated)
    /\ SetTask(i, [Task(i) EXCEPT
           !.pc = IF TtsDelivered(generated) THEN WaitOf(Task(i).pc)
                  ELSE AfterWait(WaitOf(Task(i).pc)),
           !.asleep = FALSE, !.released = FALSE, !.acked = FALSE])
    /\ UNCHANGED << connVars, loop_pc, task_started, phaseVars, loop_acked,
                    gateVars, eval_tasks, busy, http_responses,
                    calls, openai_api_key >>

\* wait_for returns: the event was set while the coroutine was parked
WaitSignalled(i) ==
    /\ Runs(i)
    /\ Task(i).pc \in WaitPcs
    /\ Task(i).released
    /\ SetTask(i, [Task(i) EXCEPT !.pc = AfterWait(Task(i).pc),
                                  !.released = FALSE, !.acked = FALSE])
    /\ UNCHANGED << connVars, loop_pc, task_started, phaseVars,
                    audio_complete_event, waiting_for_audio_complete, waiters,
                    loop_acked, gateVars, eval_tasks, busy, outVars,
                    http_responses, calls, openai_api_key >>

\* a wait without a deadline
WaitTimeout_never ==
    /\ FALSE
    /\ UNCHANGED vars

\* asyncio.TimeoutError of the oldest wait: the flag is cleared and the
\* coroutine goes on
WaitTimeout ==
    /\ busy = 0
    /\ ~Ready
    /\ waiters # <<>>
    /\ waiters' = Tail(waiters)
    /\ waiting_for_audio_complete' = FALSE
    /\ IF Head(waiters) = 0
       THEN /\ loop_pc' = "receive"
            /\ loop_acked' = FALSE
            /\ UNCHANGED adv_tasks
       ELSE LET i == Head(waiters) IN
            /\ SetTask(i, [Task(i) EXCEPT !.pc = AfterWait(Task(i).pc),
                                          !.acked = FALSE])
            /\ UNCHANGED << loop_pc, loop_acked >>
    /\ UNCHANGED << connVars, task_started, phaseVars, audio_complete_event,
                    gateVars, eval_tasks, busy, outVars, http_responses,
                    calls, openai_api_key >>

\* ------------------------------------------------------------ evaluation
Eval(e) == eval_tasks[e]

SetEval(e, task) == eval_tasks' = [eval_tasks EXCEPT ![e] = task]

Bump(c, who, t) == [c EXCEPT ![who][t] = @ + 1]

\* STTService._is_silent on the three kinds of recording
is_silent(audio_bytes) == audio_bytes \in {"empty", "silent"}

\* a check that takes no transcript for blank
Blank_never(transcript) == FALSE

\* not transcript or transcript.strip() == ""
Blank(transcript) == transcript \in {"", " "}

\* the result evaluate_working_memory_response returns without a request
NoResponseVerdict ==
    [correct_words |-> <<>>, score |-> 0, is_correct |-> FALSE,
     confidence |-> 10, notes |-> NoResponse]

\* the result it returns when the request or its parsing raises
ErrorVerdict ==
    [correct_words |-> <<>>, score |-> 0, is_correct |-> FALSE,
     confidence |-> 0, notes |-> "Evaluation error"]

\* a result that stores the recalled words in place of the expected ones
EvaluationResult_recalled(t, words, transcript, v) ==
    [trial_number |-> t, words |-> v.correct_words, transcript |-> transcript,
     correct_words |-> v.correct_words, score |-> v.score,
     is_correct |-> v.is_correct, confidence |-> v.confidence,
     notes |-> v.notes]

EvaluationResult(t, words, transcript, v) ==
    [trial_number |-> t, words |-> words, transcript |-> transcript,
     correct_words |-> v.correct_words, score |-> v.score,
     is_correct |-> v.is_correct, confidence |-> v.confidence,
     notes |-> v.notes]

\* add_evaluation_result without its guards and without the gate
add_evaluation_result_ungated(e, result) ==
    /\ evaluation_results' = Append(evaluation_results, result)
    /\ SetEval(e, [Eval(e) EXCEPT !.pc = "send_result", !.result = result])
    /\ UNCHANGED evaluated_trials

\* WorkingMemoryTaskHandler.add_evaluation_result up to its send: the two
\* guards, the gate, the EvaluationResult constructor (which raises into
\* the evaluation's "except Exception" on a field it rejects), the store
add_evaluation_result(e, result) ==
    IF result.trial_number \notin {1, 2}
       \/ result.trial_number \in evaluated_trials
    THEN /\ SetEval(e, [Eval(e) EXCEPT !.pc = "done"])
         /\ UNCHANGED gateVars
    ELSE IF result.notes = Rejected
    THEN /\ evaluated_trials' = evaluated_trials \cup {result.trial_number}
         /\ SetEval(e, [Eval(e) EXCEPT !.pc = "done"])
         /\ UNCHANGED evaluation_results
    ELSE /\ evaluated_trials' = evaluated_trials \cup {result.trial_number}
         /\ evaluation_results' = Append(evaluation_results, result)
         /\ SetEval(e, [Eval(e) EXCEPT !.pc = "send_result",
                                       !.result = result])

\* _evaluate_working_memory_audio_background from the transcript on (lines
\* 322-351); c counts the collaborator calls made so far in this step
grade_working_memory(e, transcript, c) ==
    LET t == Eval(e).trial_number IN
    IF ~(t > 0 /\ t <= Len(trial_words)) \/ t \in evaluated_trials
    THEN /\ SetEval(e, [Eval(e) EXCEPT !.pc = "done"])
         /\ calls' = c
         /\ busy' = 0
         /\ UNCHANGED gateVars
    ELSE IF Blank(transcript)
    THEN /\ add_evaluation_result(e,
              EvaluationResult(t, trial_words[t], transcript, NoResponseVerdict))
         /\ calls' = Bump(c, "llm", t)
         /\ busy' = 0
    ELSE /\ SetEval(e, [Eval(e) EXCEPT !.pc = "grading",
                                       !.transcript = transcript])
         /\ calls' = Bump(Bump(c, "llm", t), "gpt", t)
         /\ busy' = e
         /\ UNCHANGED gateVars

\* the advancement task has run to its first suspension
Started(task) ==
    ~(task.pc = "beep_end" \/ (task.pc = "advance" /\ task.upload <= 0))

\* a dispatch that passes the instruction's upload on to the evaluation
ProcessAudio_all(e) ==
    /\ busy = 0
    /\ Eval(e).pc = "process"
    /\ Started(adv_tasks[e])
    /\ SetEval(e, [Eval(e) EXCEPT !.pc = "evaluate"])
    /\ UNCHANGED << connVars, loop_pc, task_started, phaseVars, waitVars,
                    gateVars, adv_tasks, busy, outVars, http_responses, calls,
                    openai_api_key >>

\* _process_working_memory_audio_async; the loop runs the tasks of an
\* upload in the order of their creation, the advancement task first
ProcessAudio(e) ==
    /\ busy = 0
    /\ Eval(e).pc = "process"
    /\ Started(adv_tasks[e])
    /\ SetEval(e, [Eval(e) EXCEPT
           !.pc = IF Eval(e).trial_number = 0 THEN "done" ELSE "evaluate"])
    /\ UNCHANGED << connVars, loop_pc, task_started, phaseVars, waitVars,
                    gateVars, adv_tasks, busy, outVars, http_responses, calls,
                    openai_api_key >>

\* EvaluateStart without the gate check of line 308
EvaluateStart_unchecked(e) ==
    /\ busy = 0
    /\ Eval(e).pc = "evaluate"
    /\ LET t == Eval(e).trial_number IN
       IF t \notin {1, 2} \/ ~openai_api_key
       THEN /\ SetEval(e, [Eval(e) EXCEPT !.pc = "done"])
            /\ UNCHANGED << gateVars, calls, busy >>
       ELSE IF is_silent(Eval(e).audio_bytes)
       THEN grade_working_memory(e, "", Bump(calls, "stt", t))
       ELSE /\ SetEval(e, [Eval(e) EXCEPT !.pc = "transcribing"])
            /\ calls' = Bump(Bump(calls, "stt", t), "whisper", t)
            /\ busy' = e
            /\ UNCHANGED gateVars
    /\ UNCHANGED << connVars, loop_pc, task_started, phaseVars, waitVars,
                    adv_tasks, outVars, http_responses, openai_api_key >>

\* _evaluate_working_memory_audio_background from its guards to the
\* transcription request (lines 302-314)
EvaluateStart(e) ==
    /\ busy = 0
    /\ Eval(e).pc = "evaluate"
    /\ LET t == Eval(e).trial_number IN
       IF t \notin {1, 2} \/ t \in evaluated_trials \/ ~openai_api_key
       THEN /\ SetEval(e, [Eval(e) EXCEPT !.pc = "done"])
            /\ UNCHANGED << gateVars, calls, busy >>
       ELSE IF is_silent(Eval(e).audio_bytes)
       THEN grade_working_memory(e, "", Bump(calls, "stt", t))
       ELSE /\ SetEval(e, [Eval(e) EXCEPT !.pc = "transcribing"])
            /\ calls' = Bump(Bump(calls, "stt", t), "whisper", t)
            /\ busy' = e
            /\ UNCHANGED gateVars
    /\ UNCHANGED << connVars, loop_pc, task_started, phaseVars, waitVars,
                    adv_tasks, outVars, http_responses, openai_api_key >>

\* client.audio.transcriptions.create returns a text, or raises and
\* transcribe_audio re-raises into the evaluation's "except Exception"
TranscriberReturns(e) ==
    /\ busy = e
    /\ Eval(e).pc = "transcribing"
    /\ \E text \in WhisperTexts \cup {"raise"} :
          IF text = "raise"
          THEN /\ SetEval(e, [Eval(e) EXCEPT !.pc = "done"])
               /\ busy' = 0
               /\ UNCHANGED << gateVars, calls >>
          ELSE grade_working_memory(e, text, calls)
    /\ UNCHANGED << connVars, loop_pc, task_started, phaseVars, waitVars,
                    adv_tasks, outVars, http_responses, openai_api_key >>

\* client.chat.completions.create returns a verdict, or raises and
\* evaluate_working_memory_response returns its default
GraderReturns(e) ==
    /\ busy = e
    /\ Eval(e).pc = "grading"
    /\ \E v \in GraderVerdicts \cup {ErrorVerdict, MalformedVerdict} :
          add_evaluation_result(e,
              EvaluationResult(Eval(e).trial_number,
                               trial_words[Eval(e).trial_number],
                               Eval(e).transcript, v))
    /\ busy' = 0
    /\ UNCHANGED << connVars, loop_pc, task_started, phaseVars, waitVars,
                    adv_tasks, outVars, http_responses, calls,
                    openai_api_key >>

\* a delivery that takes the stored result back when the send fails
SendEvaluationResult_undo(e) ==
    /\ busy = 0
    /\ Eval(e).pc = "send_result"
    /\ send_text(<< EvaluationResultMessage(Eval(e).result) >>)
    /\ SetEval(e, [Eval(e) EXCEPT !.pc = "done"])
    /\ IF ws = "open"
       THEN UNCHANGED gateVars
       ELSE /\ evaluated_trials' = evaluated_trials \ {Eval(e).trial_number}
            /\ evaluation_results' =
                  SelectSeq(evaluation_results,
                            LAMBDA r : r.trial_number # Eval(e).trial_number)
    /\ UNCHANGED << connVars, loop_pc, task_started, phaseVars, waitVars,
                    adv_tasks, busy, http_responses, calls,
                    openai_api_key >>

\* send_evaluation_result: the one suspension of add_evaluation_result
SendEvaluationResult(e) ==
    /\ busy = 0
    /\ Eval(e).pc = "send_result"
    /\ send_text(<< EvaluationResultMessage(Eval(e).result) >>)
    /\ SetEval(e, [Eval(e) EXCEPT !.pc = "done"])
    /\ UNCHANGED << connVars, loop_pc, task_started, phaseVars, waitVars,
                    gateVars, adv_tasks, busy, http_responses, calls,
                    openai_api_key >>

\* ------------------------------------------------------------ abstraction session
\* The AbstractionTaskHandler is the other subclass of BaseTaskHandler.
\* Its session uses the fields of the base class (current_phase,
\* evaluation_results, the socket) and trial_number; it has no event, no
\* gate and no completion flag.  registry stands for
\* active_abstraction_handlers in its specification.
ABSTRACTION_TRIALS == << <<"Train", "Bicycle">>, <<"Banana", "Orange">> >>

AbstractionNoResponse ==
    [category |-> "none", is_correct |-> FALSE, confidence |-> 10,
     notes |-> NoResponse]

AbstractionErrorVerdict ==
    [category |-> "none", is_correct |-> FALSE, confidence |-> 0,
     notes |-> "Evaluation error"]

AbstractionMalformedVerdict ==
    [category |-> "none", is_correct |-> FALSE, confidence |-> 0,
     notes |-> Rejected]

\* verdicts the chat completion may return for a non-blank transcript
AbstractionVerdicts ==
    { [category |-> "transportation", is_correct |-> TRUE, confidence |-> 9,
       notes |-> "llm"] }

AbstractionResult(t, transcript, v) ==
    [trial_number |-> t, word1 |-> ABSTRACTION_TRIALS[t][1],
     word2 |-> ABSTRACTION_TRIALS[t][2], transcript |-> transcript,
     category |-> v.category, is_correct |-> v.is_correct,
     confidence |-> v.confidence, notes |-> v.notes]

\* AbstractionTaskHandler._start_task: _send_instruction up to the send of
\* the audio (base send_tts_audio: no wait; nothing goes out when
\* generate_audio raises)
AbstractionRecvStartTask(generated) ==
    /\ Receiving("start_task")
    /\ IF ~task_started
       THEN /\ task_started' = TRUE
            /\ current_phase' = "instruction"
            /\ send_text(<< DebugMessage("task start received") >>
                         \o IF generated
                            THEN << TTSMessage("instruction", 0) >>
                            ELSE << >>)
            /\ loop_pc' = "instruction_listening"
       ELSE UNCHANGED << task_started, current_phase, outVars, loop_pc >>
    /\ UNCHANGED << registry, ws, client_open, trial_number, trial_words,
                    completion_sent, waitVars, gateVars, adv_tasks,
                    eval_tasks, busy, http_responses, calls, openai_api_key >>

\* _send_instruction: send_task_state("listening", 0, "Instruction")
AbstractionInstructionListening ==
    /\ busy = 0
    /\ loop_pc = "instruction_listening"
    /\ send_text(<< TaskState("listening", 0) >>)
    /\ loop_pc' = "receive"
    /\ UNCHANGED << connVars, task_started, phaseVars, waitVars, gateVars,
                    adv_tasks, eval_tasks, busy, http_responses, calls,
                    openai_api_key >>

\* BaseTaskHandler._handle_audio_complete on a handler without the event
AbstractionRecvAudioComplete ==
    /\ Receiving("audio_complete")
    /\ UNCHANGED << registry, ws, client_open, loop_pc, task_started,
                    phaseVars, waitVars, gateVars, adv_tasks, eval_tasks,
                    busy, outVars, http_responses, calls, openai_api_key >>

AbstractionAdvTask(k) ==
    [upload |-> k, pc |-> "dispatch", n |-> None, word_index |-> 0,
     asleep |-> FALSE, released |-> FALSE, acked |-> FALSE]

\* upload_abstraction_audio
upload_abstraction_audio(k, audio_bytes) ==
    /\ busy = 0
    /\ IF registry
       THEN /\ adv_tasks' = Append(adv_tasks, AbstractionAdvTask(k))
            /\ eval_tasks' = Append(eval_tasks, EvalTask(k, audio_bytes))
            /\ http_responses' = Append(http_responses, "success")
       ELSE /\ http_responses' = Append(http_responses, "not_found")
            /\ UNCHANGED << adv_tasks, eval_tasks >>
    /\ UNCHANGED << connVars, loop_pc, task_started, phaseVars, waitVars,
                    gateVars, busy, outVars, calls, openai_api_key >>

\* AbstractionTaskHandler._handle_audio_upload: which coroutine it creates
AbstractionUploadTarget(k) ==
    IF k = 0 THEN 1
    ELSE IF k < Len(ABSTRACTION_TRIALS) THEN k + 1
    ELSE None

AbstractionHandleAudioUpload(i) ==
    /\ Runs(i)
    /\ Task(i).pc = "dispatch"
    /\ SetTask(i, [Task(i) EXCEPT
           !.n = AbstractionUploadTarget(Task(i).upload),
           !.pc = IF AbstractionUploadTarget(Task(i).upload) = None
                  THEN "send_all_results" ELSE "send_trial_audio"])
    /\ UNCHANGED << connVars, loop_pc, task_started, phaseVars, waitVars,
                    gateVars, eval_tasks, busy, outVars, http_responses,
                    calls, openai_api_key >>

\* ABSTRACTION_SCRIPT["trials"][trial_number - 1] with Python's indexing:
\* -1 and -2 count from the end, anything else out of range raises
TrialIndex(n) ==
    IF n - 1 \in 0..(Len(ABSTRACTION_TRIALS) - 1) THEN n
    ELSE IF n - 1 \in (0 - Len(ABSTRACTION_TRIALS))..(0 - 1)
         THEN Len(ABSTRACTION_TRIALS) + n
    ELSE None

\* the text of the trial's audio: the first form for trial 1 only
TrialText(n) ==
    IF n = 1 THEN "The two words are Train and Bicycle"
    ELSE IF ABSTRACTION_TRIALS[TrialIndex(n)][1] = "Train"
         THEN "one more time: Train and Bicycle"
    ELSE "one more time: Banana and Orange"

\* f"trial_{trial_number}"
AbstractionPhase(n) ==
    CASE n = 1 -> "trial_1"
      [] n = 2 -> "trial_2"
      [] n = 0 -> "trial_0"
      [] OTHER -> "trial_-1"

\* send_trial_audio up to the send of its audio
send_trial_audio(i, generated) ==
    /\ Runs(i)
    /\ Task(i).pc = "send_trial_audio"
    /\ LET n == Task(i).n IN
       IF n > Len(ABSTRACTION_TRIALS)
       THEN /\ SetTask(i, [Task(i) EXCEPT !.pc = "send_all_results"])
            /\ UNCHANGED << current_phase, trial_number, outVars >>
       ELSE /\ current_phase' = AbstractionPhase(n)
            /\ trial_number' = n
            /\ IF TrialIndex(n) = None
               THEN /\ SetTask(i, [Task(i) EXCEPT !.pc = "done"])
                    /\ UNCHANGED outVars
               ELSE /\ IF generated
                       THEN send_text(<< TTSMessage(TrialText(n), n) >>)
                       ELSE UNCHANGED outVars
                    /\ SetTask(i, [Task(i) EXCEPT !.pc = "listening"])
    /\ UNCHANGED << connVars, loop_pc, task_started, trial_words,
                    completion_sent, waitVars, gateVars, eval_tasks, busy,
                    http_responses, calls, openai_api_key >>

\* send_trial_audio: send_task_state("listening", trial_number, ...)
TrialListening(i) ==
    /\ Runs(i)
    /\ Task(i).pc = "listening"
    /\ send_text(<< TaskState("listening", Task(i).n) >>)
    /\ SetTask(i, [Task(i) EXCEPT !.pc = "done"])
    /\ UNCHANGED << connVars, loop_pc, task_started, phaseVars, waitVars,
                    gateVars, eval_tasks, busy, http_responses, calls,
                    openai_api_key >>

\* AbstractionTaskHandler._send_completion = send_all_results: the phase
\* and the complete state, then the aggregate
send_all_results(i) ==
    /\ Runs(i)
    /\ Task(i).pc \in {"send_all_results", "all_results"}
    /\ IF Task(i).pc = "send_all_results"
       THEN /\ current_phase' = "complete"
            /\ send_text(<< TaskState("complete", None) >>)
            /\ SetTask(i, [Task(i) EXCEPT !.pc = "all_results"])
       ELSE /\ send_text(<< AllResultsMessage(evaluation_results) >>)
            /\ SetTask(i, [Task(i) EXCEPT !.pc = "done"])
            /\ UNCHANGED current_phase
    /\ UNCHANGED << connVars, loop_pc, task_started, trial_number,
                    trial_words, completion_sent, waitVars, gateVars,
                    eval_tasks, busy, http_responses, calls, openai_api_key >>

\* AbstractionTaskHandler.add_evaluation_result up to its send: the
\* EvaluationResult constructor, the store; no guard and no gate
abstraction_add_evaluation_result(e, result) ==
    IF result.notes = Rejected
    THEN /\ SetEval(e, [Eval(e) EXCEPT !.pc = "done"])
         /\ UNCHANGED gateVars
    ELSE /\ evaluation_results' = Append(evaluation_results, result)
         /\ SetEval(e, [Eval(e) EXCEPT !.pc = "send_result",
                                       !.result = result])
         /\ UNCHANGED evaluated_trials

\* _evaluate_audio_background from the transcript on (lines 157-192)
grade_abstraction(e, transcript, c) ==
    LET t == Eval(e).trial_number IN
    IF ~(t > 0 /\ t <= Len(ABSTRACTION_TRIALS))
    THEN /\ SetEval(e, [Eval(e) EXCEPT !.pc = "done"])
         /\ calls' = c
         /\ busy' = 0
         /\ UNCHANGED gateVars
    ELSE IF Blank(transcript)
    THEN /\ abstraction_add_evaluation_result(e,
              AbstractionResult(t, transcript, AbstractionNoResponse))
         /\ calls' = Bump(c, "llm", t)
         /\ busy' = 0
    ELSE /\ SetEval(e, [Eval(e) EXCEPT !.pc = "grading",
                                       !.transcript = transcript])
         /\ calls' = Bump(Bump(c, "llm", t), "gpt", t)
         /\ busy' = e
         /\ UNCHANGED gateVars

\* _process_audio_async
AbstractionProcessAudio(e) ==
    /\ busy = 0
    /\ Eval(e).pc = "process"
    /\ Task(e).pc # "dispatch"
    /\ SetEval(e, [Eval(e) EXCEPT
           !.pc = IF Eval(e).trial_number = 0 THEN "done" ELSE "evaluate"])
    /\ UNCHANGED << connVars, loop_pc, task_started, phaseVars, waitVars,
                    gateVars, adv_tasks, busy, outVars, http_responses, calls,
                    openai_api_key >>

\* _evaluate_audio_background up to the transcription request (lines
\* 152-155): STTService() raises without the key, else transcribe_audio
AbstractionEvaluateStart(e) ==
    /\ busy = 0
    /\ Eval(e).pc = "evaluate"
    /\ LET t == Eval(e).trial_number IN
       IF ~openai_api_key
       THEN /\ SetEval(e, [Eval(e) EXCEPT !.pc = "done"])
            /\ UNCHANGED << gateVars, calls, busy >>
       ELSE IF is_silent(Eval(e).audio_bytes)
       THEN grade_abstraction(e, "", Bump(calls, "stt", t))
       ELSE /\ SetEval(e, [Eval(e) EXCEPT !.pc = "transcribing"])
            /\ calls' = Bump(Bump(calls, "stt", t), "whisper", t)
            /\ busy' = e
            /\ UNCHANGED gateVars
    /\ UNCHANGED << connVars, loop_pc, task_started, phaseVars, waitVars,
                    adv_tasks, outVars, http_responses, openai_api_key >>

AbstractionTranscriberReturns(e) ==
    /\ busy = e
    /\ Eval(e).pc = "transcribing"
    /\ \E text \in WhisperTexts \cup {"raise"} :
          IF text = "raise"
          THEN /\ SetEval(e, [Eval(e) EXCEPT !.pc = "done"])
               /\ busy' = 0
               /\ UNCHANGED << gateVars, calls >>
          ELSE grade_abstraction(e, text, calls)
    /\ UNCHANGED << connVars, loop_pc, task_started, phaseVars, waitVars,
                    adv_tasks, outVars, http_responses, openai_api_key >>

AbstractionGraderReturns(e) ==
    /\ busy = e
    /\ Eval(e).pc = "grading"
    /\ \E v \in AbstractionVerdicts
                 \cup {AbstractionErrorVerdict, AbstractionMalformedVerdict} :
          abstraction_add_evaluation_result(e,
              AbstractionResult(Eval(e).trial_number, Eval(e).transcript, v))
    /\ busy' = 0
    /\ UNCHANGED << connVars, loop_pc, task_started, phaseVars, waitVars,
                    adv_tasks, outVars, http_responses, calls,
                    openai_api_key >>

\* ------------------------------------------------------------ specifications
\* Spec: a client that may write any frame at any time, go away, and
\* upload anything; synthesis may fail.
Client ==
    \/ \E frame \in ClientFrames : ClientSend(frame)
    \/ ClientDisconnect
    \/ \E u \in Uploads :
          /\ Len(http_responses) < MaxUploads
          /\ upload_working_memory_audio(u[1], u[2])

MessageLoop ==
    \/ RecvStartTask
    \/ RecvAudioComplete
    \/ RecvEndSession
    \/ RecvInvalid
    \/ RecvDisconnect
    \/ InstructionPlaying
    \/ \E generated \in BOOLEAN : InstructionAudio(generated)

Advancement ==
    \E i \in DOMAIN adv_tasks :
       \/ HandleAudioUpload(i)
       \/ ScriptStep(i)
       \/ \E generated \in BOOLEAN : AudioStep(i, generated)
       \/ WaitSignalled(i)

Evaluation ==
    \E e \in DOMAIN eval_tasks :
       \/ ProcessAudio(e)
       \/ EvaluateStart(e)
       \/ TranscriberReturns(e)
       \/ GraderReturns(e)
       \/ SendEvaluationResult(e)

Next ==
    \/ Client
    \/ MessageLoop
    \/ Advancement
    \/ Evaluation
    \/ WaitTimeout

Spec == Init /\ [][Next]_vars

\* SpecGate: the client starts the task, never acknowledges an audio and
\* uploads any recording under any trial id, duplicates included.
GateClient ==
    \/ ClientSend("start_task")
    \/ \E u \in Uploads :
          /\ Len(http_responses) < MaxGateUploads
          /\ upload_working_memory_audio(u[1], u[2])

NextGate ==
    \/ GateClient
    \/ RecvStartTask
    \/ InstructionPlaying
    \/ InstructionAudio(TRUE)
    \/ \E i \in DOMAIN adv_tasks :
          \/ HandleAudioUpload(i)
          \/ ScriptStep(i)
          \/ AudioStep(i, TRUE)
    \/ Evaluation
    \/ WaitTimeout

SpecGate == Init /\ [][NextGate]_vars

\* SpecScript: the client starts the task, acknowledges audio at any time
\* and uploads under any trial id, duplicates included; every recording
\* for trial 1 or 2 is a silent one, so no evaluation reaches a request.
ScriptUploads ==
    { <<-1, "speech">>, <<0, "empty">>, <<1, "silent">>, <<2, "silent">>,
      <<3, "speech">> }

ScriptClient ==
    \/ ClientSend("start_task")
    \/ ClientSend("audio_complete")
    \/ \E u \in ScriptUploads :
          /\ Len(http_responses) < MaxScriptUploads
          /\ upload_working_memory_audio(u[1], u[2])

EvaluationOfSilence ==
    \E e \in DOMAIN eval_tasks :
       \/ ProcessAudio(e)
       \/ EvaluateStart(e)
       \/ SendEvaluationResult(e)

NextScript ==
    \/ ScriptClient
    \/ RecvStartTask
    \/ RecvAudioComplete
    \/ InstructionPlaying
    \/ InstructionAudio(TRUE)
    \/ \E i \in DOMAIN adv_tasks :
          \/ HandleAudioUpload(i)
          \/ ScriptStep(i)
          \/ AudioStep(i, TRUE)
          \/ WaitSignalled(i)
    \/ EvaluationOfSilence
    \/ WaitTimeout

SpecScript == Init /\ [][NextScript]_vars

\* SpecNominal: the nominal client.  It starts the task once, acknowledges
\* an audio (once) while the session waits for that acknowledgement, or
\* lets the wait run out, and uploads for trial 0 once the instruction
\* audio has come and for trial k once "recording" of trial k has come.
Unacked ==
    \/ loop_pc = "instruction_wait" /\ ~loop_acked
    \/ \E i \in DOMAIN adv_tasks :
          Parked(adv_tasks[i]) /\ ~adv_tasks[i].acked

Prompted(k) ==
    IF k = 0 THEN Count(TTSMessage("instruction", 0)) > 0
             ELSE Count(StateTransition("recording", k)) > 0

NominalClient ==
    \/ ~task_started /\ inbox = <<>> /\ ClientSend("start_task")
    \/ Unacked /\ ClientSend("audio_complete")
    \/ \E u \in Uploads :
          /\ u[1] = Len(http_responses)
          /\ Prompted(u[1])
          /\ upload_working_memory_audio(u[1], u[2])

NextNominal ==
    \/ NominalClient
    \/ RecvStartTask
    \/ RecvAudioComplete
    \/ InstructionPlaying
    \/ InstructionAudio(TRUE)
    \/ \E i \in DOMAIN adv_tasks :
          \/ HandleAudioUpload(i)
          \/ ScriptStep(i)
          \/ AudioStep(i, TRUE)
          \/ WaitSignalled(i)
    \/ Evaluation
    \/ WaitTimeout

SpecNominal == Init /\ [][NextNominal]_vars

\* SpecAbstraction: an abstraction session whose client starts the task,
\* acknowledges audio and uploads any recording under any trial id;
\* synthesis does not fail.
AbstractionClient ==
    \/ ClientSend("start_task")
    \/ ClientSend("audio_complete")
    \/ \E u \in Uploads :
          /\ Len(http_responses) < MaxAbstractionUploads
          /\ upload_abstraction_audio(u[1], u[2])

AbstractionLoop ==
    \/ AbstractionRecvStartTask(TRUE)
    \/ AbstractionInstructionListening
    \/ AbstractionRecvAudioComplete

AbstractionAdvancement ==
    \E i \in DOMAIN adv_tasks :
       \/ AbstractionHandleAudioUpload(i)
       \/ send_trial_audio(i, TRUE)
       \/ TrialListening(i)
       \/ send_all_results(i)

AbstractionEvaluation ==
    \E e \in DOMAIN eval_tasks :
       \/ AbstractionProcessAudio(e)
       \/ AbstractionEvaluateStart(e)
       \/ AbstractionTranscriberReturns(e)
       \/ AbstractionGraderReturns(e)
       \/ SendEvaluationResult(e)

NextAbstraction ==
    \/ AbstractionClient
    \/ AbstractionLoop
    \/ AbstractionAdvancement
    \/ AbstractionEvaluation

SpecAbstraction == Init /\ [][NextAbstraction]_vars

\* SpecGraderHangs: the nominal session in which the chat completion may
\* never return.  The event loop runs whatever is ready and every timer
\* that is due (weak fairness of the session's steps), the transcription
\* request returns, the client does what the nominal client does; nothing
\* is assumed of the grading request.
NominalButGrader ==
    \/ NominalClient
    \/ RecvStartTask
    \/ RecvAudioComplete
    \/ InstructionPlaying
    \/ InstructionAudio(TRUE)
    \/ \E i \in DOMAIN adv_tasks :
          \/ HandleAudioUpload(i)
          \/ ScriptStep(i)
          \/ AudioStep(i, TRUE)
          \/ WaitSignalled(i)
    \/ \E e \in DOMAIN eval_tasks :
          \/ ProcessAudio(e)
          \/ EvaluateStart(e)
          \/ TranscriberReturns(e)
          \/ SendEvaluationResult(e)
    \/ WaitTimeout

SpecGraderHangs ==
    Init /\ [][NextNominal]_vars /\ WF_vars(NominalButGrader)

\* SpecNoAck: start_task, then the uploads for trials 0, 1 and 2 in this
\* order at any time, and no audio_complete ever.  The event loop runs
\* whatever is ready and every timer that is due, the requests to the
\* collaborators return, and the client does send what the scenario says.
NoAckClient ==
    \/ ~task_started /\ inbox = <<>> /\ ClientSend("start_task")
    \/ \E u \in Uploads :
          /\ task_started
          /\ u[1] \in 0..2
          /\ u[1] = Len(http_responses)
          /\ upload_working_memory_audio(u[1], u[2])

NextNoAck ==
    \/ NoAckClient
    \/ RecvStartTask
    \/ InstructionPlaying
    \/ InstructionAudio(TRUE)
    \/ \E i \in DOMAIN adv_tasks :
          \/ HandleAudioUpload(i)
          \/ ScriptStep(i)
          \/ AudioStep(i, TRUE)
    \/ Evaluation
    \/ WaitTimeout

SpecNoAck == Init /\ [][NextNoAck]_vars /\ WF_vars(NextNoAck)

\* ------------------------------------------------------------ the result store
ResultsFor(t) ==
    { r \in DOMAIN evaluation_results :
         evaluation_results[r].trial_number = t }

EvalsFor(t) ==
    { e \in DOMAIN eval_tasks : Eval(e).trial_number = t }

\* C1: in a working-memory session evaluation_results never holds more
\* than one result with the same trial_number, however many uploads carry
\* that trial id and however their evaluations interleave.
C1_OneResultPerTrial ==
    \A t \in TrialIds : Cardinality(ResultsFor(t)) <= 1

\* two uploads for trial 1 were accepted, both evaluation tasks existed
\* before either ran to its end, both have ended, one result is stored
C1_Witness ==
    /\ Cardinality(EvalsFor(1)) = 2
    /\ \A e \in EvalsFor(1) : Eval(e).pc = "done"
    /\ Cardinality(ResultsFor(1)) = 1

\* C3 as stated: for each trial id in 1..2 the transcriber and the grader
\* are each invoked at most once over the session.
C3_AtMostOneInvocation ==
    \A t \in {1, 2} : calls.stt[t] <= 1 /\ calls.llm[t] <= 1

\* C3 as amended: the grader is invoked at most once for each trial id,
\* and once a trial id is in evaluated_trials neither the transcriber nor
\* the grader is invoked for it again.
C3_NoInvocationOnceMarked ==
    [][\A t \in {1, 2} :
          /\ calls'.llm[t] <= 1
          /\ calls'.gpt[t] <= 1
          /\ t \in evaluated_trials =>
                /\ calls'.stt[t] = calls.stt[t]
                /\ calls'.whisper[t] = calls.whisper[t]
                /\ calls'.llm[t] = calls.llm[t]]_vars

\* two evaluation tasks for trial 1 existed together, both have ended, and
\* one transcription request and one grading request were made
C3_Witness ==
    /\ Cardinality(EvalsFor(1)) = 2
    /\ \A e \in EvalsFor(1) : Eval(e).pc = "done"
    /\ calls.whisper[1] = 1
    /\ calls.gpt[1] = 1
    /\ 1 \in evaluated_trials

\* the step in which evaluation task e runs from its guards on a recording
\* detected silent, for a trial id in 1..2 not yet in evaluated_trials
SilentEvaluation(e) ==
    /\ e \in DOMAIN eval_tasks
    /\ Eval(e).pc = "evaluate"
    /\ eval_tasks'[e].pc # "evaluate"
    /\ Eval(e).trial_number \in {1, 2}
    /\ Eval(e).trial_number \notin evaluated_trials
    /\ Eval(e).audio_bytes \in {"empty", "silent"}

\* what C5 says of that step: one more result, is_correct false,
\* confidence 1.0 (in tenths), the no-response note, no external request
CanonicalNoResponse(e) ==
    /\ Len(evaluation_results') = Len(evaluation_results) + 1
    /\ LET r == evaluation_results'[Len(evaluation_results')] IN
          /\ r.trial_number = Eval(e).trial_number
          /\ r.is_correct = FALSE
          /\ r.confidence = 10
          /\ r.notes = NoResponse
    /\ calls'.whisper = calls.whisper
    /\ calls'.gpt = calls.gpt

C8_AckedWaitEndsBySignal ==
    [][/\ (loop_pc = "instruction_wait" /\ loop_pc' # "instruction_wait")
            => ~loop_acked
       /\ \A i \in DOMAIN adv_tasks :
             (Parked(adv_tasks[i]) /\ adv_tasks'[i].pc # adv_tasks[i].pc)
                => ~adv_tasks[i].acked]_vars

\* ------------------------------------------------------------ the scripts
\* the messages of a trial as C9 lists them
TrialBody(n) ==
    << StateTransition("words_displaying", n) >>
    \o [j \in 1..Len(FIXED_WORDS) |-> WordDisplayMessage(FIXED_WORDS[j], n, j)]
    \o << StateTransition("words_playing", n),
          TTSMessage("words", n),
          WordDisplayMessage("", n, 0),
          StateTransition("prompt_playing", n),
          TTSMessage("prompt", n),
          StateTransition("beep_start", n),
          StateTransition("recording", n) >>

TrialScript(n) ==
    IF n = 2
    THEN << StateTransition("trial_intro_playing", n),
            TTSMessage("trial_2_intro", n) >> \o TrialBody(n)
    ELSE TrialBody(n)

\* the messages of the script sent so far are its first k, once each
EmittedPrefix(script, k) ==
    \A j \in 1..Len(script) : Count(script[j]) = IF j <= k THEN 1 ELSE 0

Range(seq) == { seq[j] : j \in 1..Len(seq) }

\* the trial a phase, audio or display message carries
TrialOf(m) ==
    IF m[1] \in {"state_transition", "tts_audio", "task_state"} THEN m[3]
    ELSE IF m[1] = "word_display" THEN m[3]
    ELSE None

\* C9: on the nominal path the messages of trial 1, and of trial 2 with
\* its intro first, go out in exactly the listed order: at any time what
\* has been sent of a trial's script is a prefix of it, nothing else for
\* that trial goes out before the script's last message, and trial 2
\* starts after the last message of trial 1.
C9_TrialScriptOrder ==
    /\ \A n \in {1, 2} :
          \E k \in 0..Len(TrialScript(n)) :
             /\ EmittedPrefix(TrialScript(n), k)
             /\ k < Len(TrialScript(n)) =>
                   \A m \in DOMAIN sent :
                      TrialOf(m) = n => m \in Range(TrialScript(n))
    /\ Count(TrialScript(2)[1]) > 0 =>
          EmittedPrefix(TrialScript(1), Len(TrialScript(1)))

\* both scripts have been sent to their last message
C9_Witness ==
    /\ Count(StateTransition("recording", 1)) = 1
    /\ Count(StateTransition("recording", 2)) = 1
    /\ \E i \in DOMAIN adv_tasks :
          adv_tasks[i].upload = 1 /\ adv_tasks[i].pc = "done"

TrialPhases ==
    {"words_displaying", "trial_intro_playing", "words_playing",
     "prompt_playing", "recording"}

\* C10: no phase of a trial script is ever sent for trial 3, the task of
\* an upload for trial 2 never runs a trial script, it ends only after
\* completion_playing has been sent, and complete follows
\* completion_playing.
C10_UploadTwoCompletes ==
    /\ \A p \in TrialPhases : Count(StateTransition(p, 3)) = 0
    /\ \A i \in DOMAIN adv_tasks :
          adv_tasks[i].upload = 2 =>
             /\ adv_tasks[i].n = None
             /\ adv_tasks[i].pc = "done" =>
                   Count(StateTransition("completion_playing", None)) > 0
    /\ Count(StateTransition("complete", None))
          <= Count(StateTransition("completion_playing", None))

\* in a started session the task of an upload for trial 2 has run to its
\* end and sent completion_playing, complete and the aggregate
C10_Witness ==
    /\ Len(trial_words) = 2
    /\ Len(adv_tasks) = 1
    /\ adv_tasks[1].upload = 2
    /\ adv_tasks[1].pc = "done"
    /\ Count(StateTransition("completion_playing", None)) = 1
    /\ Count(StateTransition("complete", None)) = 1
    /\ \E m \in DOMAIN sent : m[1] = "all_results"


\* ------------------------------------------------------------ progress
Uploaded(k) == \E i \in DOMAIN adv_tasks : adv_tasks[i].upload = k

\* C6 as stated: after the upload for trial k the session goes on to
\* "recording" of trial k+1, or to "complete" after the last trial,
\* whether or not the grader of trial k ever returns.
C6_AdvancesWithoutGrader ==
    /\ \A k \in {0, 1} :
          Uploaded(k) ~> (Count(StateTransition("recording", k + 1)) > 0)
    /\ Uploaded(2) ~> (Count(StateTransition("complete", None)) > 0)

AggregateSent == \E m \in DOMAIN sent : m[1] = "all_results"

\* C7: with start_task and the uploads for 0, 1, 2 but no audio_complete
\* no wait is ever released by the signal, and the session comes to send
\* the complete transition and the aggregate results.
C7_CompletesByTimeouts ==
    /\ [](/\ ~audio_complete_event
          /\ \A i \in DOMAIN adv_tasks : ~adv_tasks[i].released)
    /\ <>(Count(StateTransition("complete", None)) > 0 /\ AggregateSent)

\* the three uploads were accepted, the scripts of both trials were sent
\* to "recording", and the session has completed
C7_Witness ==
    /\ Len(adv_tasks) = 3
    /\ Count(StateTransition("recording", 1)) > 0
    /\ Count(StateTransition("recording", 2)) > 0
    /\ Count(StateTransition("complete", None)) = 1
    /\ AggregateSent
    /\ \A i \in DOMAIN adv_tasks : adv_tasks[i].pc = "done"


\* ------------------------------------------------------------ the abstraction pipeline
\* C2 as stated: in an abstraction session evaluation_results never holds
\* more than one result with the same trial_number.
C2_OneAbstractionResultPerTrial ==
    \A r1, r2 \in DOMAIN evaluation_results :
       evaluation_results[r1].trial_number = evaluation_results[r2].trial_number
          => r1 = r2

\* C4 as stated: an upload whose trial id is outside 1..2 causes no
\* transcriber call, no grader call and no stored result.
C4_NothingOutsideTheScript ==
    \A t \in TrialIds \ {1, 2} :
       /\ calls.stt[t] = 0
       /\ calls.whisper[t] = 0
       /\ calls.llm[t] = 0
       /\ calls.gpt[t] = 0
       /\ ResultsFor(t) = {}

\* ------------------------------------------------------------ C11..C20
Ascending(results) ==
    \A r1, r2 \in DOMAIN results :
       r1 < r2 => results[r1].trial_number < results[r2].trial_number

\* C11 as stated: the list carried by every all_results message is in
\* ascending order of trial number, whatever the order in which the
\* evaluations stored their results.
C11_AggregateAscending ==
    \A m \in DOMAIN sent :
       m[1] = "all_results" => Ascending(m[2])

\* the message loop takes the frame at the head of the inbox
Takes(frame) ==
    /\ loop_pc = "receive"
    /\ inbox # <<>>
    /\ Head(inbox) = frame
    /\ inbox' = Tail(inbox)

\* C12: the first start_task runs the task start, and it is run once in
\* the session; every later start_task sends no message and leaves the
\* trial words, the phase, the trial number, the gate, the results, the
\* waits and the tasks as they were.
C12_StartIsIdempotent ==
    [][ /\ Takes("start_task") =>
            IF task_started
            THEN UNCHANGED << task_started, phaseVars, gateVars, waitVars,
                              outVars, adv_tasks, eval_tasks, loop_pc,
                              ws, registry >>
            ELSE /\ task_started'
                 /\ trial_words' = << FIXED_WORDS, FIXED_WORDS >>
                 /\ current_phase' = "instruction"
                 /\ sent' = AddAll(sent,
                               << DebugMessage("task start received"),
                                  StateTransition("instruction_display", 0) >>)
        /\ \A m \in DOMAIN sent' :
              m = StateTransition("instruction_display", 0) => sent'[m] = 1
      ]_vars

\* a started session whose instruction was sent and is over, with a further
\* start_task at the head of the inbox of the free message loop
C12_Witness ==
    /\ task_started
    /\ Count(StateTransition("instruction_display", 0)) = 1
    /\ Count(StateTransition("recording", 1)) = 1
    /\ loop_pc = "receive"
    /\ inbox # <<>>
    /\ Head(inbox) = "start_task"

\* C13 as stated: an audio_complete written when no wait is outstanding
\* releases no later wait; a parked wait is released by the signal only if
\* an audio_complete was written while that wait was parked.
C13_WaitEndsByOwnAck ==
    [][ \A i \in DOMAIN adv_tasks :
           (Parked(adv_tasks[i]) /\ adv_tasks'[i].released)
              => adv_tasks[i].acked ]_vars

\* C14 as stated: once the connection is closed no coroutine of the
\* session attempts a send (send_failed records a send_text call made on
\* a socket that is not open).
C14_NoSendAfterClose ==
    ws # "open" => ~send_failed

\* an upload request is answered in this step
Answered == Len(http_responses') = Len(http_responses) + 1

\* C15: the handler is registered exactly while the connection handler has
\* not returned, whichever way it returns; an upload for a session that is
\* not registered is answered "not_found" and creates no advancement task
\* and no evaluation task.
C15_RegistryFollowsConnection ==
    [][ /\ registry <=> loop_pc # "closed"
        /\ registry' <=> loop_pc' # "closed"
        /\ (Answered /\ ~registry) =>
              /\ http_responses'[Len(http_responses')] = "not_found"
              /\ UNCHANGED << adv_tasks, eval_tasks, outVars, calls,
                              phaseVars, gateVars >>
        /\ (Answered /\ registry) =>
              /\ http_responses'[Len(http_responses')] = "success"
              /\ Len(adv_tasks') = Len(adv_tasks) + 1
              /\ Len(eval_tasks') = Len(eval_tasks) + 1
      ]_vars

\* the connection handler has returned and an upload was refused
C15_Witness ==
    /\ loop_pc = "closed"
    /\ ~registry
    /\ http_responses = << "not_found" >>
    /\ adv_tasks = <<>>
    /\ eval_tasks = <<>>

\* C16: the answer "success" is given in the step that schedules the two
\* tasks: both are at their first instruction, and no step of any task,
\* no send, no service call and no change of the engine state is part of it.
C16_SuccessAtScheduling ==
    [][ (Answered /\ http_responses'[Len(http_responses')] = "success") =>
           /\ \E u \in Uploads :
                 /\ adv_tasks' = Append(adv_tasks, AdvTask(u[1]))
                 /\ eval_tasks' = Append(eval_tasks, EvalTask(u[1], u[2]))
           /\ UNCHANGED << outVars, calls, phaseVars, gateVars, waitVars,
                           busy >>
      ]_vars

\* the upload for trial 1 was answered and neither of its tasks has taken
\* a step
C16_Witness ==
    /\ http_responses = << "success" >>
    /\ adv_tasks = << AdvTask(1) >>
    /\ Len(eval_tasks) = 1
    /\ eval_tasks[1].pc = "process"
    /\ eval_tasks[1].trial_number = 1
    /\ \A t \in TrialIds : calls.stt[t] = 0
    /\ Count(StateTransition("beep_end", 1)) = 0

\* C17 as stated: a frame of an unrecognized kind is ignored: the message
\* loop goes on receiving, the connection stays open and registered, and
\* nothing is sent and no engine state changes.
C17_UnknownFrameIgnored ==
    [][ Takes("unknown") =>
           /\ loop_pc' = "receive"
           /\ ws' = "open"
           /\ registry'
           /\ UNCHANGED << task_started, phaseVars, gateVars, waitVars,
                           outVars, adv_tasks, eval_tasks >>
      ]_vars

\* C18: an audio emission that fails (the synthesis raises, or the send
\* does) parks nobody: the script goes on at the step after that audio's
\* wait; a plain emission whose send fails is followed by the next step of
\* the script; and the message loop whose instruction audio failed goes
\* back to receiving.
C18_FailedEmissionDoesNotAbort ==
    [][ /\ \A i \in DOMAIN adv_tasks :
              LET task == adv_tasks[i] IN
              /\ (/\ task.pc \in AudioPcs
                  /\ adv_tasks'[i] # task
                  /\ sent' = sent) =>
                     /\ adv_tasks'[i].pc = AfterWait(WaitOf(task.pc))
                     /\ waiters' = waiters
                     /\ ~waiting_for_audio_complete'
              /\ (/\ task.pc \in PlainPcs
                  /\ adv_tasks'[i] # task
                  /\ sent' = sent) =>
                     adv_tasks'[i].pc = NextPc(task)
        /\ (/\ loop_pc = "instruction_audio"
            /\ loop_pc' # loop_pc
            /\ sent' = sent) =>
               /\ loop_pc' = "receive"
               /\ waiters' = waiters
               /\ ~waiting_for_audio_complete'
      ]_vars

\* on an open connection the words of trial 1 were never sent as audio, and
\* the script of trial 1 went on to the prompt and to "recording"
C18_Witness ==
    /\ ws = "open"
    /\ Count(TTSMessage("words", 1)) = 0
    /\ Count(WordDisplayMessage("", 1, 0)) = 1
    /\ Count(TTSMessage("prompt", 1)) = 1
    /\ Count(StateTransition("recording", 1)) = 1
    /\ loop_pc = "receive"

\* the advancement task i takes the dispatch of _handle_audio_upload
Dispatches(i) ==
    /\ adv_tasks[i].pc = "advance"
    /\ adv_tasks'[i].pc # "advance"

StartsTrial(i, n, first) ==
    /\ sent' = sent (+) SetToBag({ StateTransition(first, n) })
    /\ adv_tasks'[i].n = n
    /\ trial_number' = n
    /\ current_phase' = TrialPhase(n)

StartsCompletion(i) ==
    /\ sent' = sent (+) SetToBag({ StateTransition("completion_playing", None) })
    /\ adv_tasks'[i].pc = "completion_audio"
    /\ completion_sent'

\* C19 as stated: in every engine state the upload with id 0 starts the
\* script of trial 1, the upload with id 1 the script of trial 2 and the
\* upload with id 2 the completion step.
C19_AdvancementByIdAlone ==
    [][ \A i \in DOMAIN adv_tasks :
           Dispatches(i) =>
              /\ adv_tasks[i].upload = 0 => StartsTrial(i, 1, "words_displaying")
              /\ adv_tasks[i].upload = 1 => StartsTrial(i, 2, "trial_intro_playing")
              /\ adv_tasks[i].upload = 2 => StartsCompletion(i)
      ]_vars

\* C19 amended: the dispatch is a function of the uploaded id, of whether
\* start_task has set the trial words, and of completion_sent, and of
\* nothing else: with the words set, id 0 starts the script of trial 1 and
\* id 1 the script of trial 2; any other id, and every id while the words
\* are not set, asks for the completion step, which is started if
\* completion_sent is false and is skipped without a message if it is true.
C19_AdvancementByIdWordsAndCompletion ==
    [][ \A i \in DOMAIN adv_tasks :
           Dispatches(i) =>
              LET k == adv_tasks[i].upload IN
              IF k \in {0, 1} /\ trial_words # <<>>
              THEN /\ k = 0 => StartsTrial(i, 1, "words_displaying")
                   /\ k = 1 => StartsTrial(i, 2, "trial_intro_playing")
                   /\ UNCHANGED completion_sent
              ELSE IF completion_sent
                   THEN /\ adv_tasks'[i].pc = "done"
                        /\ UNCHANGED << outVars, phaseVars >>
                   ELSE /\ StartsCompletion(i)
                        /\ UNCHANGED << trial_number, current_phase >>
      ]_vars

\* the id 0 was uploaded twice in a started session and the script of
\* trial 1 was started both times; the id 2 was never uploaded
C19_Witness ==
    /\ task_started
    /\ Len(adv_tasks) = 2
    /\ \A i \in DOMAIN adv_tasks : adv_tasks[i].upload = 0
    /\ Count(StateTransition("words_displaying", 1)) = 2
    /\ ~completion_sent

\* C20: the evaluation task of an upload with trial id 0 ends at its first
\* step: that step calls no transcriber and no grader, changes neither the
\* gate nor the results and sends nothing; trial 0 is never marked, never
\* counted in a call and never stored.
C20_NoEvaluationForInstructionUpload ==
    [][ /\ \A e \in DOMAIN eval_tasks :
              (eval_tasks[e].trial_number = 0 /\ eval_tasks'[e] # eval_tasks[e])
                 => /\ eval_tasks'[e].pc = "done"
                    /\ UNCHANGED << gateVars, calls, busy, outVars >>
        /\ 0 \notin evaluated_trials'
        /\ \A r \in DOMAIN evaluation_results' :
              evaluation_results'[r].trial_number # 0
        /\ calls'.stt[0] + calls'.whisper[0] + calls'.llm[0] + calls'.gpt[0] = 0
      ]_vars

\* in a started session the upload with id 0 was accepted, its evaluation
\* task has ended, and its advancement has taken trial 1 to "recording"
C20_Witness ==
    /\ task_started
    /\ Len(adv_tasks) = 1
    /\ adv_tasks[1].upload = 0
    /\ eval_tasks[1].trial_number = 0
    /\ eval_tasks[1].pc = "done"
    /\ Count(StateTransition("recording", 1)) = 1
    /\ evaluated_trials = {}
    /\ evaluation_results = <<>>

\* ------------------------------------------------------------ C21..C30
\* the number of all_results messages sent so far
AggregateCount ==
    BagCardinality([m \in { x \in DOMAIN sent : x[1] = "all_results" } |->
                       sent[m]])

\* C21 as stated: the aggregate all_results message is sent at most once
\* in a session, whatever uploads arrive.
C21_AggregateAtMostOnce ==
    AggregateCount <= 1

\* C22 as stated: once an all_results message has been sent,
\* evaluation_results is not appended to again.
C22_NoResultAfterAggregate ==
    [][ AggregateSent => evaluation_results' = evaluation_results ]_vars

\* C23 as stated: the step that ends a grader request, failed or not,
\* leaves one more result stored for the trial and the trial marked, a
\* failed request leaving the default (is_correct false, confidence 0);
\* the step that ends a failed transcription changes neither the gate nor
\* the results; both give the event loop back.
C23_FaultsLeaveDefaultOrNothing ==
    [][ \A e \in DOMAIN eval_tasks :
           LET t == eval_tasks[e].trial_number IN
           /\ (eval_tasks[e].pc = "grading" /\ eval_tasks'[e].pc # "grading") =>
                 /\ busy' = 0
                 /\ t \in evaluated_trials'
                 /\ Len(evaluation_results') = Len(evaluation_results) + 1
                 /\ LET r == evaluation_results'[Len(evaluation_results')] IN
                    /\ r.trial_number = t
                    /\ r.notes = ErrorVerdict.notes =>
                          (~r.is_correct /\ r.confidence = 0)
           /\ (eval_tasks[e].pc = "transcribing" /\ eval_tasks'[e].pc = "done") =>
                 /\ busy' = 0
                 /\ UNCHANGED gateVars
      ]_vars

\* C24 as stated: at most one coroutine of a session is parked in the
\* wait for audio_complete at any time, and an audio wait begins with the
\* event cleared.
C24_OneWaiter ==
    /\ Len(waiters) <= 1
    /\ \A i \in DOMAIN adv_tasks :
          Parked(adv_tasks[i]) => ~audio_complete_event

\* the emission sequences that have begun and have steps left: the
\* instruction, run by the message loop, and the scripts of the uploads
InstructionInFlight ==
    loop_pc \in {"instruction_playing", "instruction_audio", "instruction_wait"}

ScriptsInFlight ==
    { i \in DOMAIN adv_tasks :
         Started(adv_tasks[i]) /\ adv_tasks[i].pc # "done" }

\* C25 as stated: at most one emission sequence (instruction, trial script
\* or completion) is in flight at any time.
C25_OneSequenceInFlight ==
    Cardinality(ScriptsInFlight) + (IF InstructionInFlight THEN 1 ELSE 0) <= 1

\* C26: a script that has sent an audio is parked in that audio's wait,
\* sends nothing while it is parked, and leaves the wait for the step
\* after it only when the event was set while it was parked or when its
\* own timeout fires.
C26_NextStepAfterWaitResolved ==
    [][ \A i \in DOMAIN adv_tasks :
           LET task == adv_tasks[i]
               next == adv_tasks'[i] IN
           /\ (task.pc \in AudioPcs /\ next.pc # task.pc /\ sent' # sent) =>
                 /\ next.pc = WaitOf(task.pc)
                 /\ Parked(next)
                 /\ i = waiters'[Len(waiters')]
           /\ (task.pc \in WaitPcs /\ next.pc # task.pc) =>
                 /\ next.pc = AfterWait(task.pc)
                 /\ sent' = sent
                 /\ \/ task.released
                    \/ /\ waiters # <<>>
                       /\ Head(waiters) = i
                       /\ waiters' = Tail(waiters)
      ]_vars

\* the script of trial 1 has sent the words audio, left its wait, cleared
\* the display, sent the prompt audio and is parked in the prompt's wait
C26_Witness ==
    /\ Count(TTSMessage("words", 1)) = 1
    /\ Count(WordDisplayMessage("", 1, 0)) = 1
    /\ Count(TTSMessage("prompt", 1)) = 1
    /\ Count(StateTransition("beep_start", 1)) = 0
    /\ \E i \in DOMAIN adv_tasks :
          adv_tasks[i].pc = "prompt_wait" /\ Parked(adv_tasks[i])

\* the phases of a trial in the order of the script
PhaseOrder ==
    << "trial_intro_playing", "words_displaying", "words_playing",
       "prompt_playing", "beep_start", "recording", "beep_end",
       "recording_complete" >>

\* C27 as stated: for each trial number k no phase is sent twice with
\* trial_number k, and a phase is sent only while no later phase of the
\* script has been sent with trial_number k.
C27_PhasesMonotonicPerTrial ==
    [][ \A k \in {1, 2} : \A p \in DOMAIN PhaseOrder :
           LET m == StateTransition(PhaseOrder[p], k) IN
           (m \in DOMAIN sent' /\ (m \in DOMAIN sent => sent'[m] > sent[m])) =>
              /\ sent'[m] = 1
              /\ \A q \in DOMAIN PhaseOrder :
                    q > p => Count(StateTransition(PhaseOrder[q], k)) = 0
      ]_vars

\* C28 as stated: evaluated_trials only grows and holds only 1 and 2, and
\* the stored results are one for each member of evaluated_trials and
\* none for any other trial.
C28_GateMatchesStore ==
    [][ /\ evaluated_trials \subseteq evaluated_trials'
        /\ evaluated_trials' \subseteq {1, 2}
        /\ \A t \in TrialIds :
              Cardinality({ r \in DOMAIN evaluation_results' :
                               evaluation_results'[r].trial_number = t })
                 = IF t \in evaluated_trials' THEN 1 ELSE 0
      ]_vars

\* C29: the trial words are assigned by the first start_task and by
\* nothing else, are never changed once assigned, and every stored result
\* carries the words assigned to its trial.
C29_TrialWordsAssignedOnce ==
    [][ /\ trial_words # <<>> => trial_words' = trial_words
        /\ trial_words' # trial_words =>
              /\ Takes("start_task")
              /\ ~task_started
              /\ trial_words' = << FIXED_WORDS, FIXED_WORDS >>
        /\ \A r \in DOMAIN evaluation_results' :
              /\ evaluation_results'[r].trial_number \in DOMAIN trial_words'
              /\ evaluation_results'[r].words
                    = trial_words'[evaluation_results'[r].trial_number]
      ]_vars

\* the words are assigned, both trials were uploaded and evaluated, and
\* each stored result carries the words of its trial
C29_Witness ==
    /\ trial_words = << FIXED_WORDS, FIXED_WORDS >>
    /\ Len(evaluation_results) = 2
    /\ \A r \in DOMAIN evaluation_results :
          evaluation_results[r].words = FIXED_WORDS
    /\ evaluated_trials = {1, 2}

\* the evaluation e of a silent recording is at its start with nothing
\* that would make it return before add_evaluation_result
SilentAndDue(e) ==
    LET t == eval_tasks[e].trial_number IN
    /\ eval_tasks[e].pc = "evaluate"
    /\ is_silent(eval_tasks[e].audio_bytes)
    /\ t \in {1, 2} \ evaluated_trials
    /\ t <= Len(trial_words)
    /\ openai_api_key

\* the last stored result is a result of trial t
StoresFor(t) ==
    /\ Len(evaluation_results') = Len(evaluation_results) + 1
    /\ evaluation_results'[Len(evaluation_results')].trial_number = t
    /\ t \in evaluated_trials'

\* C30: on a closed connection an evaluation goes on as on an open one:
\* the evaluation of a silent recording and the evaluation whose grader
\* returns store their result and mark the gate, and the delivery of a
\* stored result to the closed socket ends the task, the attempt failing
\* without a message sent and without a change of the gate or the store.
C30_EvaluationOutlivesConnection ==
    [][ ws = "closed" =>
           \A e \in DOMAIN eval_tasks :
              LET t == eval_tasks[e].trial_number IN
              /\ (SilentAndDue(e) /\ eval_tasks'[e] # eval_tasks[e]) =>
                    /\ StoresFor(t)
                    /\ eval_tasks'[e].pc = "send_result"
              /\ (eval_tasks[e].pc = "grading" /\ eval_tasks'[e] # eval_tasks[e]) =>
                    /\ t \in evaluated_trials'
                    /\ eval_tasks'[e].pc = "send_result" => StoresFor(t)
                    /\ eval_tasks'[e].pc \in {"send_result", "done"}
              /\ (eval_tasks[e].pc = "send_result" /\ eval_tasks'[e] # eval_tasks[e]) =>
                    /\ eval_tasks'[e].pc = "done"
                    /\ send_failed'
                    /\ UNCHANGED << sent, gateVars >>
                    /\ \E r \in DOMAIN evaluation_results :
                          evaluation_results[r] = eval_tasks[e].result
      ]_vars

\* the connection is closed, the evaluation of trial 1 has ended with its
\* result stored and the trial marked, and no evaluation_result message
\* was ever sent
C30_Witness ==
    /\ ws = "closed"
    /\ Len(eval_tasks) = 1
    /\ eval_tasks[1].pc = "done"
    /\ evaluated_trials = {1}
    /\ Len(evaluation_results) = 1
    /\ Count(EvaluationResultMessage(evaluation_results[1])) = 0
    /\ send_failed

\* ------------------------------------------------------------ C31..C36
\* C31 as stated: in an abstraction session the upload with id k starts
\* the trial audio of trial k+1 when k+1 is in 1..N and the completion step
\* otherwise, and no trial audio is built for an index outside 1..N.
C31_NextAbstractionStep ==
    [][ \A i \in DOMAIN adv_tasks :
           LET k == adv_tasks[i].upload
               N == Len(ABSTRACTION_TRIALS) IN
           /\ (adv_tasks[i].pc = "dispatch" /\ adv_tasks'[i].pc # "dispatch") =>
                 IF k + 1 \in 1..N
                 THEN /\ adv_tasks'[i].pc = "send_trial_audio"
                      /\ adv_tasks'[i].n = k + 1
                 ELSE adv_tasks'[i].pc = "send_all_results"
           /\ (adv_tasks[i].pc = "send_trial_audio" /\ sent' # sent) =>
                 adv_tasks[i].n \in 1..N
      ]_vars

\* C32: the script of an upload with id k > 0 sends beep_end for k, then
\* recording_complete for k, and only then dispatches to the next step;
\* the script of an upload with id k <= 0 sends neither and dispatches at
\* once.
C32_RecordingClosedBeforeNextStep ==
    [][ \A i \in DOMAIN adv_tasks' :
           LET k == adv_tasks'[i].upload IN
           /\ i \notin DOMAIN adv_tasks =>
                 adv_tasks'[i].pc = IF k > 0 THEN "beep_end" ELSE "advance"
           /\ k <= 0 =>
                 /\ adv_tasks'[i].pc \notin {"beep_end", "recording_complete"}
                 /\ StateTransition("beep_end", k) \notin DOMAIN sent'
                 /\ StateTransition("recording_complete", k) \notin DOMAIN sent'
           /\ (i \in DOMAIN adv_tasks /\ adv_tasks'[i] # adv_tasks[i]) =>
                 /\ adv_tasks[i].pc = "beep_end" =>
                       /\ sent' = sent (+) SetToBag({StateTransition("beep_end", k)})
                       /\ adv_tasks'[i].pc = "recording_complete"
                 /\ adv_tasks[i].pc = "recording_complete" =>
                       /\ sent' = sent
                            (+) SetToBag({StateTransition("recording_complete", k)})
                       /\ adv_tasks'[i].pc = "advance"
                 /\ (adv_tasks[i].pc = "advance" /\ k > 0) =>
                       /\ Count(StateTransition("beep_end", k)) > 0
                       /\ Count(StateTransition("recording_complete", k)) > 0
      ]_vars

\* the upload for trial 1 has sent beep_end and recording_complete and is
\* about to dispatch; nothing of trial 2 has been sent
C32_Witness ==
    /\ Count(StateTransition("beep_end", 1)) = 1
    /\ Count(StateTransition("recording_complete", 1)) = 1
    /\ Count(StateTransition("trial_intro_playing", 2)) = 0
    /\ \E i \in DOMAIN adv_tasks :
          adv_tasks[i].upload = 1 /\ adv_tasks[i].pc = "advance"

\* the phases of a trial script and of the recording's end
ScriptPhases ==
    { PhaseOrder[p] : p \in DOMAIN PhaseOrder }

\* C33 as stated: once the complete transition has been sent no phase of
\* a trial is sent any more, and a current_phase of "complete" stays.
C33_CompleteIsAbsorbing ==
    [][ Count(StateTransition("complete", None)) > 0 =>
           /\ \A k \in TrialIds : \A p \in ScriptPhases :
                 LET m == StateTransition(p, k) IN
                 (m \in DOMAIN sent') => (m \in DOMAIN sent /\ sent'[m] = sent[m])
           /\ current_phase = "complete" => current_phase' = "complete"
      ]_vars

\* C34 as stated: the complete transition and the aggregate are sent only
\* after the recording phase of trial 1 and of trial 2 has been sent.
C34_CompleteAfterEveryTrial ==
    (Count(StateTransition("complete", None)) > 0 \/ AggregateSent) =>
       \A n \in {1, 2} :
          Count(StateTransition("recording", n)) > 0

\* C35 as stated: every state_transition, tts_audio, word_display and
\* evaluation_result message that carries a trial number carries one of
\* 0, 1, 2.
C35_TrialNumbersInRange ==
    \A m \in DOMAIN sent :
       /\ (m[1] \in {"state_transition", "tts_audio", "word_display"}
              /\ m[3] # None) => m[3] \in 0..2
       /\ m[1] = "evaluation_result" => m[2].trial_number \in 0..2

\* C36 as stated: waiting_for_audio_complete is true exactly while some
\* coroutine is parked in the wait for audio_complete.
C36_FlagFollowsWait ==
    waiting_for_audio_complete <=> waiters # <<>>

====
